---------------------------- MODULE Spec2Model ----------------------------
(***************************************************************************)
(* Lily-UI: the client-side session manager and audio pipeline.           *)
(*                                                                         *)
(*   sess  the socket-owning WebSocketService (src/unnamed/part_004):     *)
(*         its fields, the transport's pending events and timers, and     *)
(*         what the last handler did (act, notified, sent, ...).          *)
(*   svc   the backend-delegating WebSocketService                        *)
(*         (src/src/services/WebSocketService.ts) and the backend it      *)
(*         talks to through invoke/listen.                                *)
(*   chat  the Chat component (src/src/components/Chat.tsx): capture,     *)
(*         gating of audio chunks, playback of received clips.            *)
(*   hook  the useAudioCapture hook (src/unnamed/part_002).               *)
(*   svc3  the backend-delegating service whose connect() installs the    *)
(*         event subscriptions (src/unnamed/part_003).                    *)
(*                                                                         *)
(* Every handler runs to completion (one event-loop task = one action).   *)
(* An await splits a function into several actions.                       *)
(***************************************************************************)
EXTENDS Integers, Sequences, FiniteSets, TLC

VARIABLES sess, svc, chat, hook, svc3

vars == <<sess, svc, chat, hook, svc3>>

(***************************************************************************)
(* Bounds of the model.                                                    *)
(***************************************************************************)
\* sockets with an undelivered close event + pending reconnect timers +
\* the live current socket; only a user connect() can raise this number.
MaxPending == 2
\* binary frames (clips) received during a run
MaxClips == 3
\* MediaRecorders created during a run (start requests included)
MaxRecorders == 2
\* audio chunks retained, and chunks inside sendAudioChunk, at a time
MaxChunks == 2
\* 'websocket-status' events emitted by the backend and not yet delivered
MaxEvents == 2
\* entries of a listener registry
MaxListeners == 2
MaxClock == 8
MaxConnects == 2

(***************************************************************************)
(* Program constants.                                                      *)
(***************************************************************************)
maxRegistrationAttempts == 10
ReconnectDelay == 3000
ActivityHold == 500
ClockStep == 100

Frames == {"pong", "registered", "text"}
Live == {"connecting", "open", "closing"}
\* the callbacks the application registers
Listeners == {"l1", "l2"}

(***************************************************************************)
(* part_004: WebSocketService with its own socket.                         *)
(*                                                                         *)
(* ws is this.ws together with its readyState ("null" when this.ws is     *)
(* null).  stale counts the sockets connect()/disconnect() closed and     *)
(* dropped whose close event the browser has not delivered yet: their     *)
(* handlers are the same closures over `this`.  reconnectTimeout is the   *)
(* delay of the pending timer the field designates (0: null or already    *)
(* fired); orphanTimers counts pending reconnect timers the field no      *)
(* longer designates.                                                      *)
(***************************************************************************)
SessInit ==
  [ ws |-> "null", reconnectTimeout |-> 0, heartbeatInterval |-> FALSE,
    isConnected |-> FALSE, isRegistered |-> FALSE, isAppClosing |-> FALSE,
    registrationAttempts |-> 0, registrationInterval |-> FALSE,
    stale |-> 0, orphanTimers |-> 0,
    listeners |-> <<>>, connectionListeners |-> <<>>,
    \* observation of the run
    regFrames |-> 0, openNotified |-> 0, viaReconnect |-> FALSE,
    shutdown |-> FALSE, wasRegistered |-> FALSE,
    act |-> "init", msg |-> "", notified |-> <<>>, sent |-> <<>>,
    delivered |-> FALSE, created |-> FALSE,
    invoked |-> <<>>, invokedConnection |-> <<>>, outcome |-> "",
    wasConnected |-> FALSE, scheduled |-> 0, ackSeen |-> FALSE,
    found |-> "" ]

\* the start of a task: nothing observed yet
Begin(s, a, m) ==
  [s EXCEPT !.act = a, !.msg = m, !.notified = <<>>, !.sent = <<>>,
            !.delivered = FALSE, !.created = FALSE,
            !.invoked = <<>>, !.invokedConnection = <<>>, !.outcome = "",
            !.scheduled = 0, !.found = "",
            !.wasRegistered = s.isRegistered,
            !.wasConnected = s.isConnected]

\* Array.push
addListener(registry, l) == Append(registry, l)

\* indexOf, then splice(index, 1): the first occurrence goes
removeListener(registry, l) ==
  IF \E i \in 1..Len(registry) : registry[i] = l
  THEN LET index == CHOOSE i \in 1..Len(registry) :
                      /\ registry[i] = l
                      /\ \A j \in 1..(i - 1) : registry[j] # l
       IN  SubSeq(registry, 1, index - 1)
             \o SubSeq(registry, index + 1, Len(registry))
  ELSE registry

\* forEach over the registry: one call per entry
notifyConnectionListeners(s, connected) ==
  [s EXCEPT !.notified = Append(@, connected),
            !.invokedConnection = @ \o s.connectionListeners,
            !.openNotified = IF connected THEN @ + 1 ELSE @]

\* WebSocket.send on the current socket
wsSend(s, frame) ==
  [s EXCEPT !.sent = Append(@, frame),
            !.regFrames = IF frame = "register" THEN @ + 1 ELSE @]

\* WebSocket.close(): CONNECTING/OPEN become CLOSING, otherwise no effect
wsClose(rs) == IF rs \in {"connecting", "open"} THEN "closing" ELSE rs

\* this.ws.close(); this.ws = null
closeAndDrop(s) ==
  [s EXCEPT !.ws = "null",
            !.stale = IF s.ws \in Live THEN @ + 1 ELSE @]

sendRegistration(s) ==
  IF s.ws = "open" THEN wsSend(s, "register") ELSE s

\* a variant that leaves the first frame to the timer
startRegistration_NoInitialFrame(s) ==
  [s EXCEPT !.registrationInterval = TRUE]

startRegistration(s) ==
  [sendRegistration([s EXCEPT !.registrationInterval = FALSE])
     EXCEPT !.registrationInterval = TRUE]

connect(s) ==
  LET s1 == [s EXCEPT !.reconnectTimeout = 0,
                      !.heartbeatInterval = FALSE,
                      !.registrationInterval = FALSE,
                      !.isRegistered = FALSE]
      s2 == closeAndDrop(s1)
  IN  [s2 EXCEPT !.ws = "connecting", !.created = TRUE, !.regFrames = 0,
                 !.openNotified = 0, !.ackSeen = FALSE]

onopen(s) ==
  IF s.isAppClosing
  THEN [s EXCEPT !.ws = wsClose(@)]
  ELSE LET s1 == notifyConnectionListeners([s EXCEPT !.isConnected = TRUE], TRUE)
           s2 == startRegistration([s1 EXCEPT !.registrationAttempts = 0])
       IN  [s2 EXCEPT !.heartbeatInterval = TRUE]

heartbeatTick(s) ==
  IF s.ws = "open" THEN wsSend(s, "ping")
  ELSE IF s.ws # "null" /\ s.ws # "connecting"
  THEN LET s1 == notifyConnectionListeners(
                   [s EXCEPT !.isConnected = FALSE, !.isRegistered = FALSE], FALSE)
       IN  [s1 EXCEPT !.heartbeatInterval = FALSE, !.ws = wsClose(@)]
  ELSE s

\* a variant that leaves the registration timer running
onmessage_KeepTimer(s, data) ==
  IF s.isAppClosing THEN s
  ELSE IF data = "pong" THEN s
  ELSE IF data = "registered"
  THEN [s EXCEPT !.isRegistered = TRUE]
  ELSE [s EXCEPT !.delivered = TRUE, !.invoked = s.listeners]

\* a variant that hands every frame to the message listeners
onmessage_DeliverAll(s, data) ==
  IF s.isAppClosing THEN s
  ELSE IF data = "registered"
  THEN [s EXCEPT !.isRegistered = TRUE, !.registrationInterval = FALSE,
                 !.delivered = TRUE, !.invoked = s.listeners]
  ELSE [s EXCEPT !.delivered = TRUE, !.invoked = s.listeners]

\* a variant that announces every "registered" frame to the listeners
onmessage_AnnounceRegistered(s, data) ==
  IF s.isAppClosing THEN s
  ELSE IF data = "pong" THEN s
  ELSE IF data = "registered"
  THEN notifyConnectionListeners(
         [s EXCEPT !.isRegistered = TRUE, !.registrationInterval = FALSE], TRUE)
  ELSE [s EXCEPT !.delivered = TRUE, !.invoked = s.listeners]

onmessage(s, data) ==
  IF s.isAppClosing THEN s
  ELSE IF data = "pong" THEN s
  ELSE IF data = "registered"
  THEN [s EXCEPT !.isRegistered = TRUE, !.registrationInterval = FALSE]
  ELSE [s EXCEPT !.delivered = TRUE, !.invoked = s.listeners]

\* the timer the field designated stays pending when the field is overwritten
setReconnectTimeout(s, delay) ==
  [s EXCEPT !.reconnectTimeout = delay,
            !.orphanTimers = IF s.reconnectTimeout # 0 THEN @ + 1 ELSE @,
            !.scheduled = @ + 1]

\* a variant that schedules no reconnect
onclose_NoReconnect(s) ==
  IF s.isAppClosing THEN s
  ELSE LET s1 == notifyConnectionListeners(
                   [s EXCEPT !.isConnected = FALSE, !.isRegistered = FALSE], FALSE)
       IN  [s1 EXCEPT !.heartbeatInterval = FALSE,
                      !.registrationInterval = FALSE]

onclose(s) ==
  IF s.isAppClosing THEN s
  ELSE LET s1 == notifyConnectionListeners(
                   [s EXCEPT !.isConnected = FALSE, !.isRegistered = FALSE], FALSE)
           s2 == [s1 EXCEPT !.heartbeatInterval = FALSE,
                            !.registrationInterval = FALSE]
       IN  setReconnectTimeout(s2, ReconnectDelay)

\* a variant that schedules a reconnect of its own
onerror_AlsoSchedules(s) ==
  IF s.isAppClosing THEN s
  ELSE LET s1 == notifyConnectionListeners(
                   [s EXCEPT !.isConnected = FALSE, !.isRegistered = FALSE], FALSE)
       IN  setReconnectTimeout([s1 EXCEPT !.ws = wsClose(@)], ReconnectDelay)

onerror(s) ==
  IF s.isAppClosing THEN s
  ELSE LET s1 == notifyConnectionListeners(
                   [s EXCEPT !.isConnected = FALSE, !.isRegistered = FALSE], FALSE)
       IN  [s1 EXCEPT !.ws = wsClose(@)]

\* a variant that gives the connection up with the retries
registrationTick_TearDown(s) ==
  IF s.isConnected /\ s.ws = "open" /\ ~s.isRegistered
  THEN LET s1 == [s EXCEPT !.registrationAttempts = @ + 1]
       IN  IF s1.registrationAttempts <= maxRegistrationAttempts
           THEN sendRegistration(s1)
           ELSE [s1 EXCEPT !.registrationInterval = FALSE,
                           !.heartbeatInterval = FALSE, !.ws = wsClose(@)]
  ELSE IF s.isRegistered
  THEN [s EXCEPT !.registrationInterval = FALSE]
  ELSE s

registrationTick(s) ==
  IF s.isConnected /\ s.ws = "open" /\ ~s.isRegistered
  THEN LET s1 == [s EXCEPT !.registrationAttempts = @ + 1]
       IN  IF s1.registrationAttempts <= maxRegistrationAttempts
           THEN sendRegistration(s1)
           ELSE [s1 EXCEPT !.registrationInterval = FALSE]
  ELSE IF s.isRegistered
  THEN [s EXCEPT !.registrationInterval = FALSE]
  ELSE s

disconnect(s) ==
  LET s1 == [s EXCEPT !.isAppClosing = TRUE,
                      !.reconnectTimeout = 0,
                      !.heartbeatInterval = FALSE,
                      !.registrationInterval = FALSE]
      s2 == closeAndDrop(s1)
  IN  [s2 EXCEPT !.isConnected = FALSE, !.isRegistered = FALSE]

\* send(message): written to an open socket, otherwise a console warning
send(s, message) ==
  IF s.ws = "open"
  THEN [wsSend(s, message) EXCEPT !.outcome = "sent"]
  ELSE [s EXCEPT !.outcome = "warned"]

\* what only a user connect() can raise
Pending(s) ==
  s.stale + s.orphanTimers
  + (IF s.reconnectTimeout # 0 THEN 1 ELSE 0)
  + (IF s.ws \in Live THEN 1 ELSE 0)

(***************************************************************************)
(* Actions of the socket-owning service.                                   *)
(***************************************************************************)
\* the application calls connect()
Connect ==
  LET t == [connect(Begin(sess, "Connect", "")) EXCEPT
              !.viaReconnect = FALSE, !.shutdown = FALSE]
  IN  /\ Pending(t) <= MaxPending
      /\ sess' = t
      /\ UNCHANGED <<svc, chat, hook, svc3>>

\* the application calls disconnect()
Disconnect ==
  /\ sess' = [disconnect(Begin(sess, "Disconnect", "")) EXCEPT !.shutdown = TRUE]
  /\ UNCHANGED <<svc, chat, hook, svc3>>

\* the server accepts the connection: open event on the current socket
OnOpen ==
  /\ sess.ws = "connecting"
  /\ sess' = onopen([Begin(sess, "OnOpen", "") EXCEPT !.ws = "open"])
  /\ UNCHANGED <<svc, chat, hook, svc3>>

\* a message event; the browser fires none unless readyState is OPEN
OnMessage ==
  /\ sess.ws = "open"
  /\ \E data \in Frames :
       sess' = [onmessage(Begin(sess, "OnMessage", data), data) EXCEPT
                  !.ackSeen = @ \/ data = "registered"]
  /\ UNCHANGED <<svc, chat, hook, svc3>>

\* Array.prototype.forEach over a registry whose callbacks call
\* remove*Listener: the indices 1..n of the start are visited in order, the
\* entry found at an index when it is reached is called, an index past the
\* end is skipped.  removes[l] is the listener l's callback removes, "" for
\* none.  The result is the registry left and the listeners called.
RECURSIVE forEach(_, _, _, _, _)
forEach(registry, i, n, removes, invoked) ==
  IF i > n THEN <<registry, invoked>>
  ELSE IF i > Len(registry)
  THEN forEach(registry, i + 1, n, removes, invoked)
  ELSE LET l == registry[i]
       IN  forEach(IF removes[l] = "" THEN registry
                   ELSE removeListener(registry, removes[l]),
                   i + 1, n, removes, Append(invoked, l))

\* ws.onmessage with message listeners that remove listeners when called
onmessageRemoving(s, data, removes) ==
  IF s.isAppClosing \/ data \in {"pong", "registered"} THEN onmessage(s, data)
  ELSE LET r == forEach(s.listeners, 1, Len(s.listeners), removes, <<>>)
       IN  [s EXCEPT !.delivered = TRUE, !.listeners = r[1], !.invoked = r[2]]

\* a frame for the listeners arrives while some listener's callback calls
\* removeMessageListener
OnMessageRemoving ==
  /\ sess.ws = "open"
  /\ \E removes \in [Listeners -> Listeners \cup {""}] :
       /\ \E l \in Listeners : removes[l] # ""
       /\ sess' = onmessageRemoving(Begin(sess, "OnMessageRemoving", "text"),
                                    "text", removes)
  /\ UNCHANGED <<svc, chat, hook, svc3>>

\* the server starts the closing handshake: readyState becomes CLOSING
ServerClosing ==
  /\ sess.ws = "open"
  /\ sess' = [Begin(sess, "ServerClosing", "") EXCEPT !.ws = "closing"]
  /\ UNCHANGED <<svc, chat, hook, svc3>>

\* the current socket is closed cleanly: readyState CLOSED, close event
OnClose ==
  /\ sess.ws \in {"open", "closing"}
  /\ sess' = onclose([Begin(sess, "OnClose", "") EXCEPT !.ws = "closed"])
  /\ UNCHANGED <<svc, chat, hook, svc3>>

\* the current socket fails: readyState CLOSED, then the error event and
\* the close event are fired in the same task
OnError ==
  /\ sess.ws \in Live
  /\ sess' = onclose(onerror([Begin(sess, "OnError", "") EXCEPT !.ws = "closed"]))
  /\ UNCHANGED <<svc, chat, hook, svc3>>

\* the close event of a socket connect()/disconnect() has replaced
StaleClose ==
  /\ sess.stale > 0
  /\ sess' = onclose([Begin(sess, "StaleClose", "") EXCEPT !.stale = @ - 1])
  /\ UNCHANGED <<svc, chat, hook, svc3>>

\* a replaced socket fails: its error event, then its close event
StaleError ==
  /\ sess.stale > 0
  /\ sess' = onclose(onerror([Begin(sess, "StaleError", "") EXCEPT !.stale = @ - 1]))
  /\ UNCHANGED <<svc, chat, hook, svc3>>

\* the application calls send(message)
Send ==
  /\ sess' = send(Begin(sess, "Send", "text"), "text")
  /\ UNCHANGED <<svc, chat, hook, svc3>>

AddMessageListener ==
  /\ Len(sess.listeners) < MaxListeners
  /\ \E l \in Listeners :
       sess' = [Begin(sess, "AddMessageListener", l) EXCEPT
                  !.listeners = addListener(@, l)]
  /\ UNCHANGED <<svc, chat, hook, svc3>>

RemoveMessageListener ==
  /\ \E l \in Listeners :
       sess' = [Begin(sess, "RemoveMessageListener", l) EXCEPT
                  !.listeners = removeListener(@, l)]
  /\ UNCHANGED <<svc, chat, hook, svc3>>

AddConnectionListener ==
  /\ Len(sess.connectionListeners) < MaxListeners
  /\ \E l \in Listeners :
       sess' = [Begin(sess, "AddConnectionListener", l) EXCEPT
                  !.connectionListeners = addListener(@, l)]
  /\ UNCHANGED <<svc, chat, hook, svc3>>

RemoveConnectionListener ==
  /\ \E l \in Listeners :
       sess' = [Begin(sess, "RemoveConnectionListener", l) EXCEPT
                  !.connectionListeners = removeListener(@, l)]
  /\ UNCHANGED <<svc, chat, hook, svc3>>

\* the service with its registries in use: one socket, no failures
NextListeners ==
  \/ AddMessageListener
  \/ RemoveMessageListener
  \/ AddConnectionListener
  \/ RemoveConnectionListener
  \/ Connect
  \/ OnOpen
  \/ OnMessage
  \/ OnClose
  \/ Disconnect

\* the registries in use by listeners that remove listeners when called
NextDispatch ==
  \/ NextListeners
  \/ OnMessageRemoving

\* the transport loses the socket without a close event: readyState is
\* CLOSED and no handler runs
SilentClose ==
  /\ sess.ws \in {"open", "closing"}
  /\ sess' = [Begin(sess, "SilentClose", "") EXCEPT !.ws = "closed"]
  /\ UNCHANGED <<svc, chat, hook, svc3>>

HeartbeatTick ==
  /\ sess.heartbeatInterval
  /\ sess' = heartbeatTick([Begin(sess, "HeartbeatTick", "") EXCEPT
                              !.found = sess.ws])
  /\ UNCHANGED <<svc, chat, hook, svc3>>

RegistrationTick ==
  /\ sess.registrationInterval
  /\ sess' = registrationTick(Begin(sess, "RegistrationTick", ""))
  /\ UNCHANGED <<svc, chat, hook, svc3>>

\* a reconnect timer fires: the one the field designates, or an orphan
ReconnectFire ==
  /\ \/ /\ sess.reconnectTimeout # 0
        /\ sess' = [connect(Begin(sess, "ReconnectFire", "")) EXCEPT
                      !.viaReconnect = TRUE]
     \/ /\ sess.orphanTimers > 0
        /\ sess' = [connect([Begin(sess, "ReconnectFire", "orphan") EXCEPT
                               !.orphanTimers = @ - 1]) EXCEPT
                      !.viaReconnect = TRUE]
  /\ UNCHANGED <<svc, chat, hook, svc3>>


(***************************************************************************)
(* services/WebSocketService.ts: the service that delegates the            *)
(* connection to the backend and caches the status the backend reports.   *)
(***************************************************************************)
(*                                                                         *)
(* initPc is where the constructor's init() stands: awaiting one of its   *)
(* three listen() calls, or past them.  unsubscribeFunctions holds the    *)
(* channels whose unsubscribe function init() has stored; subscribed the  *)
(* channels on which a handler of the service is installed.  statusQuery  *)
(* is the get_websocket_status call of getStatus(true): "asked", then     *)
(* "answered" (statusReply is the pair the backend answered with) or      *)
(* "failed".  disconnectPc is                                              *)
(* where disconnect() stands.  backend/wanted/events are the backend's    *)
(* side: the status it holds, whether it was told to connect, and the     *)
(* 'websocket-status' events it has emitted, in order.                     *)
(***************************************************************************)
SvcInit ==
  [ isConnected |-> FALSE, isRegistered |-> FALSE, isAppClosing |-> FALSE,
    unsubscribeFunctions |-> {}, subscribed |-> {},
    initPc |-> "listenStatus", statusQuery |-> "none",
    statusReply |-> <<FALSE, FALSE>>,
    disconnectPc |-> "idle",
    backend |-> <<FALSE, FALSE>>, wanted |-> FALSE, events |-> <<>>,
    \* observation of the run
    act |-> "init", notified |-> <<>> ]

SvcBegin(v, a) == [v EXCEPT !.act = a, !.notified = <<>>]

\* the status pairs the backend reports
Statuses == {<<FALSE, FALSE>>, <<TRUE, FALSE>>, <<TRUE, TRUE>>}

svcNotifyConnectionListeners(v, connected) ==
  [v EXCEPT !.notified = Append(@, connected)]

\* the 'websocket-status' handler installed by init()
onWebsocketStatus(v, status) ==
  svcNotifyConnectionListeners(
    [v EXCEPT !.isConnected = status[1], !.isRegistered = status[2]],
    status[1])

getIsConnected(v) == v.isConnected
getIsRegistered(v) == v.isRegistered

\* connect(): the flag, then invoke('connect_websocket'), which the backend
\* takes (ok) or rejects
svcConnect(v, ok) ==
  [v EXCEPT !.isAppClosing = FALSE, !.wanted = IF ok THEN TRUE ELSE @]

\* one await listen(...) of init() resolved (ok) or rejected
initListen(v, ok) ==
  IF ~ok THEN [v EXCEPT !.initPc = "done", !.statusQuery = "asked"]
  ELSE LET ch == CASE v.initPc = "listenStatus" -> "status"
                   [] v.initPc = "listenMessage" -> "message"
                   [] OTHER -> "binary"
           v1 == [v EXCEPT !.unsubscribeFunctions = @ \cup {ch},
                           !.subscribed = @ \cup {ch}]
       IN  CASE v.initPc = "listenStatus" -> [v1 EXCEPT !.initPc = "listenMessage"]
             [] v.initPc = "listenMessage" -> [v1 EXCEPT !.initPc = "listenBinary"]
             [] OTHER -> [v1 EXCEPT !.initPc = "done", !.statusQuery = "asked"]

\* getStatus(true) after its await: the reply, or the rejection
getStatusReturn(v, ok) ==
  IF v.statusQuery = "failed"
  THEN svcConnect([v EXCEPT !.statusQuery = "none"], ok)
  ELSE LET status == v.statusReply
           v1 == svcNotifyConnectionListeners(
                   [v EXCEPT !.isConnected = status[1],
                             !.isRegistered = status[2],
                             !.statusQuery = "none"], status[1])
       IN  IF ~status[1] THEN svcConnect(v1, ok) ELSE v1

\* disconnect() up to await invoke('disconnect_websocket')
svcDisconnect(v) ==
  [v EXCEPT !.isAppClosing = TRUE,
            !.subscribed = @ \ v.unsubscribeFunctions,
            !.unsubscribeFunctions = {},
            !.disconnectPc = "awaiting"]

\* disconnect() after the await: the reset, or the rethrown error
svcDisconnectReturn(v, ok) ==
  IF ok
  THEN [v EXCEPT !.isConnected = FALSE, !.isRegistered = FALSE,
                 !.disconnectPc = "done"]
  ELSE [v EXCEPT !.disconnectPc = "failed"]

\* the backend emits 'websocket-status' with the status it holds
backendEmit(v, status) ==
  [v EXCEPT !.backend = status, !.events = Append(@, status)]

(***************************************************************************)
(* Actions of the backend-delegating service.                              *)
(***************************************************************************)
SvcInitListen ==
  /\ svc.initPc # "done"
  /\ \E ok \in BOOLEAN : svc' = initListen(SvcBegin(svc, "SvcInitListen"), ok)
  /\ UNCHANGED <<sess, chat, hook, svc3>>

\* the backend answers get_websocket_status, or the call fails
BackendAnswersStatus ==
  /\ svc.statusQuery = "asked"
  /\ \/ svc' = [SvcBegin(svc, "BackendAnswersStatus") EXCEPT
                  !.statusQuery = "answered", !.statusReply = svc.backend]
     \/ svc' = [SvcBegin(svc, "BackendAnswersStatus") EXCEPT
                  !.statusQuery = "failed"]
  /\ UNCHANGED <<sess, chat, hook, svc3>>

SvcGetStatusReturn ==
  /\ svc.statusQuery \notin {"none", "asked"}
  /\ \E ok \in BOOLEAN :
       svc' = getStatusReturn(SvcBegin(svc, "SvcGetStatusReturn"), ok)
  /\ UNCHANGED <<sess, chat, hook, svc3>>

\* the application calls connect()
SvcConnect ==
  /\ \E ok \in BOOLEAN : svc' = svcConnect(SvcBegin(svc, "SvcConnect"), ok)
  /\ UNCHANGED <<sess, chat, hook, svc3>>

\* the application calls disconnect(); one call is in flight at a time
SvcDisconnect ==
  /\ svc.disconnectPc # "awaiting"
  /\ svc' = svcDisconnect(SvcBegin(svc, "SvcDisconnect"))
  /\ UNCHANGED <<sess, chat, hook, svc3>>

\* invoke('disconnect_websocket') resolves: the backend has dropped the
\* connection; or it rejects
SvcDisconnectReturn ==
  /\ svc.disconnectPc = "awaiting"
  /\ \/ svc' = svcDisconnectReturn(
                  [SvcBegin(svc, "SvcDisconnectReturn") EXCEPT
                     !.backend = <<FALSE, FALSE>>, !.wanted = FALSE], TRUE)
     \/ svc' = svcDisconnectReturn(SvcBegin(svc, "SvcDisconnectReturn"), FALSE)
  /\ UNCHANGED <<sess, chat, hook, svc3>>

\* the backend's connection changes state
BackendStatus ==
  /\ svc.wanted
  /\ Len(svc.events) < MaxEvents
  /\ \E st \in Statuses :
       /\ st # svc.backend
       /\ svc' = backendEmit(SvcBegin(svc, "BackendStatus"), st)
  /\ UNCHANGED <<sess, chat, hook, svc3>>

\* an emitted event reaches the webview: the handler runs if installed
SvcDeliverStatus ==
  /\ svc.events # <<>>
  /\ LET v == [SvcBegin(svc, "SvcDeliverStatus") EXCEPT !.events = Tail(@)]
     IN  svc' = IF "status" \in svc.subscribed
                THEN onWebsocketStatus(v, Head(svc.events))
                ELSE v
  /\ UNCHANGED <<sess, chat, hook, svc3>>

NextSvc ==
  \/ SvcInitListen
  \/ BackendAnswersStatus
  \/ SvcGetStatusReturn
  \/ SvcConnect
  \/ SvcDisconnect
  \/ SvcDisconnectReturn
  \/ BackendStatus
  \/ SvcDeliverStatus

(***************************************************************************)
(* part_003: the backend-delegating service whose connect() installs the  *)
(* event subscriptions.                                                    *)
(*                                                                         *)
(* connects[i] is where the i-th call of connect() stands: awaiting one   *)
(* of its three listen() calls or invoke('connect_websocket'), "done" or  *)
(* "failed".  subscribed[ch] counts the handlers of the service installed *)
(* on channel ch, unsubscribeFunctions[ch] the unsubscribe functions for  *)
(* ch the service holds.  wanted: the backend was told to connect.        *)
(***************************************************************************)
Channels == {"status", "message", "binary"}

Svc3Init ==
  [ isConnected |-> FALSE, isRegistered |-> FALSE, isAppClosing |-> FALSE,
    unsubscribeFunctions |-> [ch \in Channels |-> 0],
    subscribed |-> [ch \in Channels |-> 0],
    connects |-> <<>>, disconnectPc |-> "idle", wanted |-> FALSE,
    listeners |-> <<>>, connectionListeners |-> <<>>,
    \* observation of the run
    act |-> "init", channel |-> "", invoked |-> <<>>,
    invokedConnection |-> <<>> ]

Svc3Begin(v, a) ==
  [v EXCEPT !.act = a, !.channel = "", !.invoked = <<>>,
            !.invokedConnection = <<>>]

\* connect() up to its first await
svc3Connect(v) ==
  [v EXCEPT !.isAppClosing = FALSE, !.connects = Append(@, "listenStatus")]

\* one await of the i-th connect() settled: a listen() resolved (the
\* handler is installed, its unsubscribe function pushed) or rejected, or
\* invoke('connect_websocket') resolved or rejected
svc3ConnectStep(v, i, ok) ==
  LET pc == v.connects[i]
  IN  IF ~ok THEN [v EXCEPT !.connects[i] = "failed"]
      ELSE IF pc = "invoke"
      THEN [v EXCEPT !.connects[i] = "done", !.wanted = TRUE]
      ELSE LET ch == CASE pc = "listenStatus" -> "status"
                       [] pc = "listenMessage" -> "message"
                       [] OTHER -> "binary"
               next == CASE pc = "listenStatus" -> "listenMessage"
                         [] pc = "listenMessage" -> "listenBinary"
                         [] OTHER -> "invoke"
           IN  [v EXCEPT !.connects[i] = next,
                         !.subscribed[ch] = @ + 1,
                         !.unsubscribeFunctions[ch] = @ + 1]

\* disconnect() up to await invoke('disconnect_websocket')
svc3Disconnect(v) ==
  [v EXCEPT !.isAppClosing = TRUE,
            !.subscribed = [ch \in Channels |->
                              @[ch] - v.unsubscribeFunctions[ch]],
            !.unsubscribeFunctions = [ch \in Channels |-> 0],
            !.disconnectPc = "awaiting"]

\* disconnect() after the await: the reset, or the rethrown error
svc3DisconnectReturn(v, ok) ==
  IF ok
  THEN [v EXCEPT !.isConnected = FALSE, !.isRegistered = FALSE,
                 !.disconnectPc = "done"]
  ELSE [v EXCEPT !.disconnectPc = "failed"]

svc3NotifyMessageListeners(v) ==
  [v EXCEPT !.invoked = @ \o v.listeners]

svc3NotifyConnectionListeners(v) ==
  [v EXCEPT !.invokedConnection = @ \o v.connectionListeners]

\* one installed handler of channel ch runs
svc3Handler(v, ch, status) ==
  IF ch = "status"
  THEN svc3NotifyConnectionListeners(
         [v EXCEPT !.isConnected = status[1], !.isRegistered = status[2]])
  ELSE svc3NotifyMessageListeners(v)

\* a backend event on channel ch: every installed handler of ch runs
RECURSIVE svc3Event(_, _, _, _)
svc3Event(v, ch, status, k) ==
  IF k = 0 THEN v
  ELSE svc3Event(svc3Handler(v, ch, status), ch, status, k - 1)

(***************************************************************************)
(* Actions of part_003.                                                    *)
(***************************************************************************)
Svc3Connect ==
  /\ Len(svc3.connects) < MaxConnects
  /\ svc3' = svc3Connect(Svc3Begin(svc3, "Svc3Connect"))
  /\ UNCHANGED <<sess, svc, chat, hook>>

Svc3ConnectStep ==
  /\ \E i \in 1..Len(svc3.connects), ok \in BOOLEAN :
       /\ svc3.connects[i] \notin {"done", "failed"}
       /\ svc3' = svc3ConnectStep(Svc3Begin(svc3, "Svc3ConnectStep"), i, ok)
  /\ UNCHANGED <<sess, svc, chat, hook>>

\* the application calls disconnect(); one call is in flight at a time
Svc3Disconnect ==
  /\ svc3.disconnectPc # "awaiting"
  /\ svc3' = svc3Disconnect(Svc3Begin(svc3, "Svc3Disconnect"))
  /\ UNCHANGED <<sess, svc, chat, hook>>

Svc3DisconnectReturn ==
  /\ svc3.disconnectPc = "awaiting"
  /\ \/ svc3' = svc3DisconnectReturn(
                   [Svc3Begin(svc3, "Svc3DisconnectReturn") EXCEPT
                      !.wanted = FALSE], TRUE)
     \/ svc3' = svc3DisconnectReturn(
                   Svc3Begin(svc3, "Svc3DisconnectReturn"), FALSE)
  /\ UNCHANGED <<sess, svc, chat, hook>>

Svc3AddMessageListener ==
  /\ Len(svc3.listeners) < MaxListeners
  /\ \E l \in Listeners :
       svc3' = [Svc3Begin(svc3, "Svc3AddMessageListener") EXCEPT
                  !.listeners = addListener(@, l)]
  /\ UNCHANGED <<sess, svc, chat, hook>>

Svc3AddConnectionListener ==
  /\ Len(svc3.connectionListeners) < MaxListeners
  /\ \E l \in Listeners :
       svc3' = [Svc3Begin(svc3, "Svc3AddConnectionListener") EXCEPT
                  !.connectionListeners = addListener(@, l)]
  /\ UNCHANGED <<sess, svc, chat, hook>>

\* the backend, told to connect, emits an event and the webview runs the
\* handlers installed on its channel
Svc3BackendEvent ==
  /\ svc3.wanted
  /\ \E ch \in Channels, status \in Statuses :
       svc3' = svc3Event([Svc3Begin(svc3, "Svc3BackendEvent") EXCEPT
                            !.channel = ch],
                         ch, status, svc3.subscribed[ch])
  /\ UNCHANGED <<sess, svc, chat, hook>>

NextSvc3 ==
  \/ Svc3Connect
  \/ Svc3ConnectStep
  \/ Svc3Disconnect
  \/ Svc3DisconnectReturn
  \/ Svc3AddMessageListener
  \/ Svc3AddConnectionListener
  \/ Svc3BackendEvent

(***************************************************************************)
(* Chat.tsx: playback of received clips.                                   *)
(*                                                                         *)
(* clips[i] is the i-th Audio element created by the 'websocket-binary'   *)
(* handler:                                                                *)
(*   "starting"  play() was called, its play event is queued              *)
(*   "playing"   the play event was handled, the element is not paused    *)
(*   "aborting"  paused before playback began: play()'s promise rejects   *)
(*   "paused"    paused, "ended" played to the end, "failed" media error  *)
(* playQueue holds the elements whose play event is queued, in the order  *)
(* play() was called.  urls is the set of object URLs not yet revoked.    *)
(* effAudio/effRecorder are the values of currentAudio/mediaRecorder the  *)
(* last run of the clean-up effect (deps [currentAudio, mediaRecorder])   *)
(* closed over; 0 stands for null.  cleared is the clip whose ended,      *)
(* error or catch handler set currentAudio to null last, 0 when an        *)
(* element was set last.                                                   *)
(***************************************************************************)
ChatInit ==
  [ clips |-> <<>>, playQueue |-> <<>>, urls |-> {},
    isPlaying |-> FALSE, currentAudio |-> 0,
    effAudio |-> 0, effRecorder |-> 0,
    \* capture
    conversationMode |-> FALSE, conversationModeRef |-> FALSE,
    mediaRecorder |-> 0, recorders |-> <<>>, starting |-> 0,
    audioChunks |-> 0, inBuffer |-> 0, inDelay |-> 0,
    audioContext |-> "null", contextClosing |-> 0,
    animationFrame |-> FALSE, activityTimeout |-> FALSE,
    isAudioActive |-> FALSE,
    clock |-> 0, activeSince |-> 0, timeoutAt |-> 0,
    \* observation of the run
    startLog |-> <<>>, overlapped |-> {}, cleared |-> 0, act |-> "init",
    handed |-> FALSE, alerted |-> FALSE, lostAtCheck |-> FALSE ]

ChatBegin(c, a) ==
  [c EXCEPT !.act = a, !.handed = FALSE, !.alerted = FALSE,
            !.lostAtCheck = FALSE]

PlayingClips(c) == {i \in 1..Len(c.clips) : c.clips[i] = "playing"}

\* HTMLMediaElement.pause(): before playback has begun the pending play()
\* promise is rejected (begun = FALSE), afterwards the element just pauses
pause(c, a, begun) ==
  IF a # 0 /\ c.clips[a] = "playing"
  THEN [c EXCEPT !.clips[a] = IF begun THEN "paused" ELSE "aborting"]
  ELSE c

\* the listen('websocket-binary') handler: a new Audio for the frame,
\* its handlers, and play() at once
\* a variant whose newest clip starts first
onWebsocketBinary_NewestFirst(c) ==
  LET a == Len(c.clips) + 1
  IN  [c EXCEPT !.clips = Append(@, "starting"),
                !.urls = @ \cup {a},
                !.playQueue = <<a>> \o @,
                !.overlapped = IF PlayingClips(c) # {} THEN @ \cup {a} ELSE @]

onWebsocketBinary(c) ==
  LET a == Len(c.clips) + 1
  IN  [c EXCEPT !.clips = Append(@, "starting"),
                !.urls = @ \cup {a},
                !.playQueue = Append(@, a),
                !.overlapped = IF PlayingClips(c) # {} THEN @ \cup {a} ELSE @]

audio_onplay(c, a) ==
  [c EXCEPT !.isPlaying = TRUE, !.currentAudio = a]

audio_onended(c, a) ==
  [c EXCEPT !.isPlaying = FALSE, !.currentAudio = 0, !.urls = @ \ {a}]

audio_onerror(c, a) ==
  [c EXCEPT !.isPlaying = FALSE, !.currentAudio = 0, !.urls = @ \ {a}]

\* audio.play().catch(...)
play_catch(c, a) ==
  [c EXCEPT !.isPlaying = FALSE, !.currentAudio = 0, !.urls = @ \ {a}]

\* recorder.stop as start replaced it: clearInterval, then the original
\* stop (state inactive at once; dataavailable and stop events follow)
recorderStop(c, r) ==
  [c EXCEPT !.recorders[r] =
     [@ EXCEPT !.interval = FALSE, !.state = "inactive", !.stopPending = TRUE]]

\* cancelAnimationFrame, clearTimeout and audioContext.close() through the
\* refs, as the clean-up effect does them (the refs stay set)
teardownAnalysis(c) ==
  [c EXCEPT !.animationFrame = FALSE, !.activityTimeout = FALSE,
            !.audioContext = IF @ = "null" THEN @ ELSE "closed"]

\* the clean-up of the effect, run with the values it closed over
effectCleanup(c, audio, recorder, begun) ==
  LET c1 == IF audio # 0
            THEN [pause(c, audio, begun) EXCEPT
                    !.currentAudio = 0, !.isPlaying = FALSE]
            ELSE c
      c2 == IF recorder # 0 /\ c1.recorders[recorder].state = "recording"
            THEN recorderStop(c1, recorder)
            ELSE c1
  IN  teardownAnalysis(c2)

(***************************************************************************)
(* Actions of playback.                                                    *)
(***************************************************************************)
\* the backend pushes a binary frame
BinaryFrame ==
  /\ Len(chat.clips) < MaxClips
  /\ chat' = onWebsocketBinary(ChatBegin(chat, "BinaryFrame"))
  /\ UNCHANGED <<sess, svc, hook, svc3>>

\* the queued play event of the element that called play() first
AudioPlay ==
  /\ chat.playQueue # <<>>
  /\ LET a == Head(chat.playQueue)
         c == [ChatBegin(chat, "AudioPlay") EXCEPT
                 !.playQueue = Tail(@), !.clips[a] = "playing",
                 !.startLog = Append(@, a), !.cleared = 0]
     IN  chat' = audio_onplay(c, a)
  /\ UNCHANGED <<sess, svc, hook, svc3>>

AudioEnded ==
  /\ \E a \in PlayingClips(chat) :
       chat' = audio_onended(
                 [ChatBegin(chat, "AudioEnded") EXCEPT
                    !.clips[a] = "ended", !.cleared = a], a)
  /\ UNCHANGED <<sess, svc, hook, svc3>>

\* a media error: the error event, and the rejection of play()'s promise
AudioError ==
  /\ \E a \in PlayingClips(chat) :
       chat' = play_catch(audio_onerror(
                 [ChatBegin(chat, "AudioError") EXCEPT
                    !.clips[a] = "failed", !.cleared = a], a), a)
  /\ UNCHANGED <<sess, svc, hook, svc3>>

\* play()'s promise of an element paused before playback began
PlayAborted ==
  /\ \E a \in 1..Len(chat.clips) :
       /\ chat.clips[a] = "aborting"
       /\ chat' = play_catch(
                    [ChatBegin(chat, "PlayAborted") EXCEPT
                       !.clips[a] = "paused", !.cleared = a], a)
  /\ UNCHANGED <<sess, svc, hook, svc3>>

\* the effects of one render: conversationModeRef follows the state, and
\* when currentAudio or mediaRecorder changed the previous clean-up runs
\* and the effect closes over the new values
renderEffects(c, begun) ==
  LET c1 == [c EXCEPT !.conversationModeRef = c.conversationMode]
  IN  IF <<c.currentAudio, c.mediaRecorder>> # <<c.effAudio, c.effRecorder>>
      THEN [effectCleanup(c1, c.effAudio, c.effRecorder, begun) EXCEPT
              !.effAudio = c.currentAudio, !.effRecorder = c.mediaRecorder]
      ELSE c1

\* React re-renders after a state change
Render ==
  /\ \/ <<chat.currentAudio, chat.mediaRecorder>> # <<chat.effAudio, chat.effRecorder>>
     \/ chat.conversationModeRef # chat.conversationMode
  /\ \E begun \in BOOLEAN :
       chat' = renderEffects(ChatBegin(chat, "Render"), begun)
  /\ UNCHANGED <<sess, svc, hook, svc3>>

NextPlayback ==
  \/ BinaryFrame
  \/ AudioPlay
  \/ AudioEnded
  \/ AudioError
  \/ PlayAborted
  \/ Render

(***************************************************************************)
(* Chat.tsx: capture.                                                      *)
(*                                                                         *)
(* recorders[r] is the r-th MediaRecorder created: its state, whether the *)
(* events of stop() (the last dataavailable, then stop) are still to      *)
(* come, whether its connectivity-check interval is set, whether the      *)
(* stream's tracks are live, and the conversationMode value the           *)
(* toggleConversationMode that created it closed over.  starting counts   *)
(* the start requests awaiting getUserMedia.  inBuffer and inDelay count  *)
(* the sendAudioChunk calls awaiting arrayBuffer() and the 50 ms delay.   *)
(***************************************************************************)
Lost(v) == ~getIsConnected(v) \/ ~getIsRegistered(v)

\* toggleConversationMode, stop branch, up to its await
stopBranch(c, recorder) ==
  LET c1 == IF recorder # 0
            THEN LET c0 == IF c.recorders[recorder].state = "recording"
                           THEN recorderStop(c, recorder) ELSE c
                 IN  [c0 EXCEPT !.recorders[recorder].tracks = FALSE]
            ELSE c
      c2 == [c1 EXCEPT !.conversationMode = FALSE, !.mediaRecorder = 0,
                       !.audioChunks = 0, !.isAudioActive = FALSE,
                       !.animationFrame = FALSE, !.activityTimeout = FALSE]
  IN  IF c2.audioContext = "null" THEN c2
      ELSE IF c2.audioContext = "closed" THEN [c2 EXCEPT !.audioContext = "null"]
      ELSE [c2 EXCEPT !.audioContext = "closed", !.contextClosing = @ + 1]

\* toggleConversationMode, start branch, up to await getUserMedia
startBranch(c, v) ==
  IF Lost(v) THEN [c EXCEPT !.alerted = TRUE]
  ELSE [c EXCEPT !.starting = @ + 1]

\* toggleConversationMode as the closure that holds conversationMode and
\* mediaRecorder runs it
toggleConversationMode(c, v, conversationMode, mediaRecorder) ==
  IF conversationMode THEN stopBranch(c, mediaRecorder) ELSE startBranch(c, v)

setupAudioAnalysis(c) ==
  [c EXCEPT !.audioContext = "running", !.animationFrame = TRUE]

\* the start branch after getUserMedia resolved; closureMode is the
\* conversationMode of the closure that is running
startGranted(c, closureMode) ==
  LET r == Len(c.recorders) + 1
      c1 == [c EXCEPT !.conversationMode = TRUE,
                      !.recorders = Append(@,
                         [state |-> "recording", stopPending |-> FALSE,
                          interval |-> TRUE, tracks |-> TRUE,
                          closureMode |-> closureMode,
                          closureRecorder |-> c.mediaRecorder]),
                      !.mediaRecorder = r,
                      !.starting = @ - 1]
  IN  setupAudioAnalysis(c1)

\* a variant that swallows the rejection
startDenied_Silent(c) ==
  [c EXCEPT !.starting = @ - 1]

\* the start branch when getUserMedia rejected
startDenied(c) ==
  [c EXCEPT !.starting = @ - 1, !.alerted = TRUE]

\* the connectionCheckInterval callback of recorder r
connectionCheck(c, v, r) ==
  IF Lost(v)
  THEN toggleConversationMode([c EXCEPT !.lostAtCheck = TRUE], v,
                              c.recorders[r].closureMode,
                              c.recorders[r].closureRecorder)
  ELSE c

\* sendAudioChunk up to await audioBlob.arrayBuffer()
sendAudioChunk(c, v) ==
  IF ~c.conversationModeRef THEN c
  ELSE IF Lost(v) THEN c
  ELSE IF Lost(v) THEN c
  ELSE [c EXCEPT !.inBuffer = @ + 1]

\* a variant without the final status check
sendAfterDelay_NoFinalCheck(c, v) ==
  [c EXCEPT !.inDelay = @ - 1, !.handed = TRUE]

\* sendAudioChunk after the 50 ms delay: the final check and the send
sendAfterDelay(c, v) ==
  IF Lost(v) THEN [c EXCEPT !.inDelay = @ - 1]
  ELSE [c EXCEPT !.inDelay = @ - 1, !.handed = TRUE]

ondataavailable(c, v, nonEmpty) ==
  IF nonEmpty
  THEN sendAudioChunk([c EXCEPT !.audioChunks = @ + 1], v)
  ELSE c

recorder_onstop(c, r) ==
  [c EXCEPT !.recorders[r].tracks = FALSE]

\* recorder.onerror: the handler only logs; the recorder that raised the
\* error is inactive and its last dataavailable and stop events follow
recorder_onerror(c, r) ==
  [c EXCEPT !.recorders[r] =
     [@ EXCEPT !.state = "inactive", !.stopPending = TRUE]]

\* detectAudio, one animation frame: loud is rms > 2 for the window read.
\* Without analyser or context, or with a closed context, it returns and
\* requests no further frame.
detectAudio(c, loud) ==
  IF c.audioContext # "running"
  THEN [c EXCEPT !.animationFrame = FALSE]
  ELSE [c EXCEPT !.isAudioActive = loud,
                 !.activeSince = IF loud /\ ~c.isAudioActive
                                 THEN c.clock ELSE @,
                 !.activityTimeout = loud,
                 !.timeoutAt = IF loud THEN c.clock + ActivityHold ELSE @,
                 !.animationFrame = TRUE]

\* the callback of the activity timeout
activityTimeoutFired(c) ==
  [c EXCEPT !.isAudioActive = FALSE, !.activityTimeout = FALSE]

(***************************************************************************)
(* Actions of capture.                                                     *)
(***************************************************************************)
\* the backend reports a status: the service's 'websocket-status' handler
StatusEvent ==
  /\ \E st \in Statuses :
       /\ <<svc.isConnected, svc.isRegistered>> # st
       /\ svc' = onWebsocketStatus(SvcBegin(svc, "StatusEvent"), st)
  /\ chat' = ChatBegin(chat, "StatusEvent")
  /\ UNCHANGED <<sess, hook, svc3>>

\* the user clicks the microphone button: the toggleConversationMode of
\* the last render, which closed over the values rendered then (they are
\* the ones the effects of that render saw)
ClickToggle ==
  /\ chat.conversationModeRef \/
       chat.starting + Len(chat.recorders) < MaxRecorders
  /\ chat' = toggleConversationMode(ChatBegin(chat, "ClickToggle"), svc,
                                    chat.conversationModeRef, chat.effRecorder)
  /\ UNCHANGED <<sess, svc, hook, svc3>>

MicGranted ==
  /\ chat.starting > 0
  /\ chat' = startGranted(ChatBegin(chat, "MicGranted"), FALSE)
  /\ UNCHANGED <<sess, svc, hook, svc3>>

MicDenied ==
  /\ chat.starting > 0
  /\ chat' = startDenied(ChatBegin(chat, "MicDenied"))
  /\ UNCHANGED <<sess, svc, hook, svc3>>

\* audioContext.close() awaited by the stop branch resolved
ContextClosed ==
  /\ chat.contextClosing > 0
  /\ chat' = [ChatBegin(chat, "ContextClosed") EXCEPT
                !.contextClosing = @ - 1, !.audioContext = "null"]
  /\ UNCHANGED <<sess, svc, hook, svc3>>

ConnectionCheck ==
  /\ \E r \in 1..Len(chat.recorders) :
       /\ chat.recorders[r].interval
       /\ chat' = connectionCheck(ChatBegin(chat, "ConnectionCheck"), svc, r)
  /\ UNCHANGED <<sess, svc, hook, svc3>>

\* a recording recorder delivers the chunk of one timeslice
DataAvailable ==
  /\ chat.audioChunks < MaxChunks
  /\ chat.inBuffer + chat.inDelay < MaxChunks
  /\ \E r \in 1..Len(chat.recorders) :
       /\ chat.recorders[r].state = "recording"
       /\ chat' = ondataavailable(ChatBegin(chat, "DataAvailable"), svc, TRUE)
  /\ UNCHANGED <<sess, svc, hook, svc3>>

\* the task stop() queued: the last dataavailable, then the stop event
RecorderStopped ==
  /\ chat.audioChunks < MaxChunks
  /\ chat.inBuffer + chat.inDelay < MaxChunks
  /\ \E r \in 1..Len(chat.recorders), nonEmpty \in BOOLEAN :
       /\ chat.recorders[r].stopPending
       /\ chat' = recorder_onstop(
                    ondataavailable(
                      [ChatBegin(chat, "RecorderStopped") EXCEPT
                         !.recorders[r].stopPending = FALSE], svc, nonEmpty), r)
  /\ UNCHANGED <<sess, svc, hook, svc3>>

\* the recorder raises an error event and stops by itself
RecorderError ==
  /\ \E r \in 1..Len(chat.recorders) :
       /\ chat.recorders[r].state = "recording"
       /\ chat' = recorder_onerror(ChatBegin(chat, "RecorderError"), r)
  /\ UNCHANGED <<sess, svc, hook, svc3>>

\* audioBlob.arrayBuffer() resolved: the 50 ms delay starts
ChunkBuffered ==
  /\ chat.inBuffer > 0
  /\ chat' = [ChatBegin(chat, "ChunkBuffered") EXCEPT
                !.inBuffer = @ - 1, !.inDelay = @ + 1]
  /\ UNCHANGED <<sess, svc, hook, svc3>>

\* the delay elapsed
ChunkSend ==
  /\ chat.inDelay > 0
  /\ chat' = sendAfterDelay(ChatBegin(chat, "ChunkSend"), svc)
  /\ UNCHANGED <<sess, svc, hook, svc3>>

NextCapture ==
  \/ StatusEvent
  \/ ClickToggle
  \/ MicGranted
  \/ MicDenied
  \/ ContextClosed
  \/ ConnectionCheck
  \/ DataAvailable
  \/ RecorderStopped
  \/ ChunkBuffered
  \/ ChunkSend
  \/ Render

\* capture while clips are received and played
NextConversation ==
  \/ StatusEvent
  \/ ClickToggle
  \/ MicGranted
  \/ ContextClosed
  \/ RecorderError
  \/ BinaryFrame
  \/ AudioPlay
  \/ Render

(***************************************************************************)
(* Chat.tsx: the voice-activity loop.  clock is the time in ms, in steps  *)
(* of ClockStep; activeSince is the time isAudioActive last went from     *)
(* false to true, timeoutAt the time the pending activity timeout is due. *)
(* Animation frames come at the display rate, so any number of them runs  *)
(* between two steps of the clock.                                         *)
(***************************************************************************)
\* time passes while a frame or the timeout is pending; a timeout that is
\* due fires before time passes further
Tick ==
  /\ chat.animationFrame \/ chat.activityTimeout
  /\ chat.clock < MaxClock * ClockStep
  /\ ~(chat.activityTimeout /\ chat.clock >= chat.timeoutAt)
  /\ chat' = [ChatBegin(chat, "Tick") EXCEPT !.clock = @ + ClockStep]
  /\ UNCHANGED <<sess, svc, hook, svc3>>

\* the animation frame requested by setupAudioAnalysis or detectAudio
DetectAudio ==
  /\ chat.animationFrame
  /\ \E loud \in BOOLEAN :
       chat' = detectAudio(ChatBegin(chat, "DetectAudio"), loud)
  /\ UNCHANGED <<sess, svc, hook, svc3>>

ActivityTimeout ==
  /\ chat.activityTimeout
  /\ chat.clock >= chat.timeoutAt
  /\ chat' = activityTimeoutFired(ChatBegin(chat, "ActivityTimeout"))
  /\ UNCHANGED <<sess, svc, hook, svc3>>

\* starting and stopping capture with a recorder that may fail
NextStop ==
  \/ StatusEvent
  \/ ClickToggle
  \/ MicGranted
  \/ ContextClosed
  \/ ConnectionCheck
  \/ RecorderStopped
  \/ RecorderError
  \/ Render

NextVad ==
  \/ StatusEvent
  \/ ClickToggle
  \/ MicGranted
  \/ ContextClosed
  \/ Render
  \/ Tick
  \/ DetectAudio
  \/ ActivityTimeout

(***************************************************************************)
(* part_002: the useAudioCapture hook.                                     *)
(*                                                                         *)
(* recorders[r] is the r-th MediaRecorder startRecording created, with    *)
(* the stream it records (tracks: its tracks are live).  mediaRecorderRef *)
(* and streamRef are the refs (0: null); starting counts the calls of     *)
(* startRecording that await getUserMedia.                                 *)
(***************************************************************************)
HookInit ==
  [ isRecording |-> FALSE, mediaRecorderRef |-> 0, streamRef |-> 0,
    recorders |-> <<>>, starting |-> 0,
    \* observation of the run
    act |-> "init", returned |-> "", logged |-> FALSE, chunkPassed |-> FALSE ]

HookBegin(h, a) ==
  [h EXCEPT !.act = a, !.returned = "", !.logged = FALSE,
            !.chunkPassed = FALSE]

\* startRecording after getUserMedia resolved
startRecordingGranted(h) ==
  LET r == Len(h.recorders) + 1
  IN  [h EXCEPT !.starting = @ - 1,
                !.streamRef = r, !.mediaRecorderRef = r,
                !.recorders = Append(@, [state |-> "recording",
                                         stopPending |-> FALSE,
                                         tracks |-> TRUE]),
                !.isRecording = TRUE, !.returned = "stream"]

\* startRecording when getUserMedia rejected: the catch block
startRecordingDenied(h) ==
  [h EXCEPT !.starting = @ - 1, !.logged = TRUE, !.returned = "null"]

\* a variant that stops whatever the ref holds
stopRecording_Unguarded(h) ==
  IF h.mediaRecorderRef # 0
  THEN [h EXCEPT !.recorders[h.mediaRecorderRef] =
                    [@ EXCEPT !.state = "inactive", !.stopPending = TRUE],
                 !.isRecording = FALSE]
  ELSE [h EXCEPT !.returned = "TypeError"]

stopRecording(h) ==
  IF h.mediaRecorderRef # 0
     /\ h.recorders[h.mediaRecorderRef].state = "recording"
  THEN [h EXCEPT !.recorders[h.mediaRecorderRef] =
                    [@ EXCEPT !.state = "inactive", !.stopPending = TRUE],
                 !.isRecording = FALSE]
  ELSE h

\* mediaRecorder.ondataavailable
hook_ondataavailable(h, nonEmpty) ==
  IF nonEmpty THEN [h EXCEPT !.chunkPassed = TRUE] ELSE h

\* mediaRecorder.onstop: the tracks of the stream streamRef holds now
hook_onstop(h) ==
  IF h.streamRef # 0
  THEN [h EXCEPT !.recorders[h.streamRef].tracks = FALSE]
  ELSE h

(***************************************************************************)
(* Actions of the hook.                                                    *)
(***************************************************************************)
\* the component calls startRecording(): it awaits getUserMedia
HookStart ==
  /\ hook.starting + Len(hook.recorders) < MaxRecorders
  /\ hook' = [HookBegin(hook, "HookStart") EXCEPT !.starting = @ + 1]
  /\ UNCHANGED <<sess, svc, chat, svc3>>

HookGranted ==
  /\ hook.starting > 0
  /\ hook' = startRecordingGranted(HookBegin(hook, "HookGranted"))
  /\ UNCHANGED <<sess, svc, chat, svc3>>

HookDenied ==
  /\ hook.starting > 0
  /\ hook' = startRecordingDenied(HookBegin(hook, "HookDenied"))
  /\ UNCHANGED <<sess, svc, chat, svc3>>

\* the component calls stopRecording()
HookStop ==
  /\ hook' = stopRecording(HookBegin(hook, "HookStop"))
  /\ UNCHANGED <<sess, svc, chat, svc3>>

HookData ==
  /\ \E r \in 1..Len(hook.recorders), nonEmpty \in BOOLEAN :
       /\ hook.recorders[r].state = "recording"
       /\ hook' = hook_ondataavailable(HookBegin(hook, "HookData"), nonEmpty)
  /\ UNCHANGED <<sess, svc, chat, svc3>>

\* the task stop() queued: the last dataavailable, then the stop event
HookStopped ==
  /\ \E r \in 1..Len(hook.recorders), nonEmpty \in BOOLEAN :
       /\ hook.recorders[r].stopPending
       /\ hook' = hook_onstop(hook_ondataavailable(
                    [HookBegin(hook, "HookStopped") EXCEPT
                       !.recorders[r].stopPending = FALSE], nonEmpty))
  /\ UNCHANGED <<sess, svc, chat, svc3>>

\* starting and stopping capture, in the component and in the hook
NextStartStop ==
  \/ StatusEvent
  \/ ClickToggle
  \/ MicGranted
  \/ MicDenied
  \/ ContextClosed
  \/ Render
  \/ HookStart
  \/ HookGranted
  \/ HookDenied
  \/ HookStop
  \/ HookData
  \/ HookStopped

Init ==
  /\ sess = SessInit
  /\ svc = SvcInit
  /\ chat = ChatInit
  /\ hook = HookInit
  /\ svc3 = Svc3Init

Next ==
  \/ Connect
  \/ Disconnect
  \/ OnOpen
  \/ OnMessage
  \/ ServerClosing
  \/ OnClose
  \/ OnError
  \/ StaleClose
  \/ StaleError
  \/ HeartbeatTick
  \/ RegistrationTick
  \/ ReconnectFire
  \/ Send

Spec == Init /\ [][Next]_vars

SpecListeners == Init /\ [][NextListeners]_vars

SpecDispatch == Init /\ [][NextDispatch]_vars

SpecPlayback == Init /\ [][NextPlayback]_vars

SpecCapture == Init /\ [][NextCapture]_vars

SpecSvc == Init /\ [][NextSvc]_vars

SpecSvc3 == Init /\ [][NextSvc3]_vars

SpecStartStop == Init /\ [][NextStartStop]_vars

SpecVad == Init /\ [][NextVad]_vars

SpecConversation == Init /\ [][NextConversation]_vars

SpecStop == Init /\ [][NextStop]_vars

\* the close event of a socket whose closing handshake is under way
ClosingDone == sess.ws = "closing" /\ (OnClose \/ OnError)

\* timers fire, the transport delivers the close of a closed socket, and
\* the server is cooperative: it accepts a connection again and again
LiveSpec ==
  /\ Init /\ [][Next]_vars
  /\ WF_vars(ReconnectFire)
  /\ WF_vars(StaleClose)
  /\ WF_vars(ClosingDone)
  /\ SF_vars(OnOpen)

\* the session on a transport that may lose a socket silently
NextSilent == Next \/ SilentClose

LiveSpecSilent ==
  /\ Init /\ [][NextSilent]_vars
  /\ WF_vars(ReconnectFire)
  /\ WF_vars(StaleClose)
  /\ WF_vars(ClosingDone)
  /\ SF_vars(OnOpen)

TypeOK ==
  /\ sess.ws \in {"null", "connecting", "open", "closing", "closed"}
  /\ sess.reconnectTimeout \in {0, ReconnectDelay}
  /\ sess.stale \in 0..MaxPending
  /\ sess.orphanTimers \in 0..MaxPending
  /\ Pending(sess) <= MaxPending
  /\ sess.registrationAttempts \in 0..(maxRegistrationAttempts + 1)
  /\ sess.regFrames \in 0..(maxRegistrationAttempts + 1)

(***************************************************************************)
(* Claims about the socket-owning service.                                 *)
(***************************************************************************)
\* the fields of the service and the transport, without the observation
SessFields(s) ==
  <<s.ws, s.reconnectTimeout, s.heartbeatInterval, s.isConnected,
    s.isRegistered, s.isAppClosing, s.registrationAttempts,
    s.registrationInterval, s.stale, s.orphanTimers,
    s.listeners, s.connectionListeners>>

ClosedOnCurrent ==
  sess.act \in {"OnClose", "OnError"} /\ ~sess.isAppClosing

OpenUnregistered ==
  sess.ws = "open" /\ sess.isConnected /\ ~sess.isRegistered

\* C1: a close of the current socket that disconnect() did not precede
\* always schedules a reconnect with the fixed delay (no retry limit, no
\* growth), connect() is then called again (the socket is connecting), and
\* with a server that accepts, the session is open and unregistered again.
C1_ReconnectLiveness ==
  /\ [](ClosedOnCurrent => sess.reconnectTimeout = ReconnectDelay)
  /\ (ClosedOnCurrent ~> (sess.ws = "connecting" \/ sess.isAppClosing))
  /\ ((sess.ws = "connecting" /\ ~sess.isAppClosing)
        ~> ((sess.act = "OnOpen" /\ OpenUnregistered) \/ sess.isAppClosing))

C1_Witness ==
  sess.act = "OnOpen" /\ sess.viaReconnect /\ OpenUnregistered

\* C2: after disconnect(), and until the application calls connect()
\* again, no timer callback runs, no socket is created, no listener is
\* notified and no reconnect is scheduled.
C2_ShutdownFinality ==
  sess.shutdown =>
    /\ sess.act \notin {"ReconnectFire", "HeartbeatTick", "RegistrationTick"}
    /\ ~sess.created
    /\ sess.notified = <<>>
    /\ sess.reconnectTimeout = 0

\* C4: the registration attempt counter never exceeds the maximum.
C4_CapInvariant ==
  sess.registrationAttempts <= maxRegistrationAttempts

\* the retry timer has just given up on an open, unanswered socket
RegistrationExhausted ==
  /\ sess.act = "RegistrationTick"
  /\ OpenUnregistered
  /\ ~sess.registrationInterval

\* C5: when the server never answers, the session stays open and
\* unregistered, the counter ends at exactly the maximum, no 11th
\* registration frame was sent on the socket, and the listeners saw one
\* connected notification and nothing from the retries.
C5_ExhaustedScenario ==
  RegistrationExhausted =>
    /\ sess.registrationAttempts = maxRegistrationAttempts
    /\ sess.regFrames <= maxRegistrationAttempts
    /\ sess.openNotified = 1
    /\ sess.notified = <<>>

\* C8: "registered" received by a session that is already registered
\* changes no field and notifies nobody.
C8_RegistrationIdempotent ==
  [][(sess.isRegistered /\ sess'.act = "OnMessage" /\ sess'.msg = "registered")
       => /\ SessFields(sess') = SessFields(sess)
          /\ sess'.notified = <<>>
          /\ sess'.sent = <<>>
          /\ ~sess'.delivered]_vars

C8_Witness ==
  /\ sess.act = "OnMessage" /\ sess.msg = "registered"
  /\ sess.wasRegistered /\ sess.isRegistered

(***************************************************************************)
(* Claims about the status broadcast, send, the registries and shutdown.   *)
(***************************************************************************)
\* C11: every step that changes the pair (connected, registered) notifies
\* the connection-status listeners.
C11_StatusChangeBroadcast ==
  [][(<<sess'.isConnected, sess'.isRegistered>>
        # <<sess.isConnected, sess.isRegistered>>)
       => sess'.notified # <<>>]_vars

\* C12: send() on a socket that is not open ends with a NotConnected error,
\* and send() on an open socket writes the message.
C12_SendFailsWhenNotOpen ==
  sess.act = "Send" =>
    IF sess.ws = "open"
    THEN sess.outcome = "sent" /\ sess.sent = <<sess.msg>>
    ELSE sess.outcome = "NotConnected" /\ sess.sent = <<>>

InRegistry(registry, l) == \E i \in 1..Len(registry) : registry[i] = l

\* C14: adding a listener that is registered and removing one that is not
\* leave the registry unchanged, in both registries.
C14_ListenerIdempotence ==
  [][/\ (sess'.act = "AddMessageListener"
           /\ InRegistry(sess.listeners, sess'.msg))
          => sess'.listeners = sess.listeners
     /\ (sess'.act = "RemoveMessageListener"
           /\ ~InRegistry(sess.listeners, sess'.msg))
          => sess'.listeners = sess.listeners
     /\ (sess'.act = "AddConnectionListener"
           /\ InRegistry(sess.connectionListeners, sess'.msg))
          => sess'.connectionListeners = sess.connectionListeners
     /\ (sess'.act = "RemoveConnectionListener"
           /\ ~InRegistry(sess.connectionListeners, sess'.msg))
          => sess'.connectionListeners = sess.connectionListeners]_vars

\* the number of entries of a sequence that equal l
Count(seq, l) == Cardinality({i \in 1..Len(seq) : seq[i] = l})

\* C35: in one dispatch of a message every listener that is in the
\* registry when the dispatch starts is called exactly once, also when a
\* callback removes itself or another listener (registry without
\* duplicate entries).
C35_DispatchCallsEachOnce ==
  [][(/\ sess'.act = "OnMessageRemoving" /\ sess'.delivered
      /\ \A l \in Listeners : Count(sess.listeners, l) <= 1)
        => \A l \in Listeners :
             InRegistry(sess.listeners, l) => Count(sess'.invoked, l) = 1]_vars

\* C15: after disconnect() followed by connect(), once the server accepts
\* the connection the session is connected again: an open event that
\* follows the application's connect() leaves connected = true.
C15_RecreateAfterShutdown ==
  (sess.act = "OnOpen" /\ ~sess.shutdown) => sess.isConnected

\* C16: connect() called while the shutdown flag is set creates no socket
\* and changes no field.
C16_ConnectWhileClosingNoOp ==
  [][(sess.isAppClosing /\ sess'.act = "Connect")
       => ~sess'.created /\ SessFields(sess') = SessFields(sess)]_vars

\* C21: the close or error event of a socket connect() has replaced leaves
\* the session alone: status, timers, current socket and reconnect schedule
\* are what they were, and no listener is notified.
C21_StaleEventsIgnored ==
  [][sess'.act \in {"StaleClose", "StaleError"} =>
       /\ <<sess'.isConnected, sess'.isRegistered>>
            = <<sess.isConnected, sess.isRegistered>>
       /\ <<sess'.heartbeatInterval, sess'.registrationInterval>>
            = <<sess.heartbeatInterval, sess.registrationInterval>>
       /\ sess'.ws = sess.ws
       /\ <<sess'.reconnectTimeout, sess'.orphanTimers>>
            = <<sess.reconnectTimeout, sess.orphanTimers>>
       /\ sess'.notified = <<>>]_vars

\* C22: when connect() has created the new socket, no heartbeat, registration
\* or reconnect timer is pending, registered is false, and the socket it
\* replaced is no longer connecting or open.
C22_ConnectIsRestart ==
  sess.created =>
    /\ ~sess.heartbeatInterval /\ ~sess.registrationInterval
    /\ sess.reconnectTimeout = 0 /\ sess.orphanTimers = 0
    /\ ~sess.isRegistered
    /\ sess.ws = "connecting"

\* a heartbeat tick that found the socket neither open nor connecting
HeartbeatFoundDead ==
  sess.act = "HeartbeatTick" /\ sess.found \in {"closing", "closed"}

\* C23: after a heartbeat tick that found the socket neither open nor
\* connecting, connect() is called again (unless the application shuts the
\* session down), also when the socket is closed and delivers no close event.
C23_HeartbeatReconnects ==
  HeartbeatFoundDead ~> (sess.created \/ sess.isAppClosing)

\* C24: an error of the current socket, shutdown flag clear, ends with the
\* socket closed, heartbeat and registration timers stopped, status
\* connected = false / registered = false, and one reconnect scheduled.
C24_ErrorHandledOnce ==
  (sess.act = "OnError" /\ ~sess.isAppClosing) =>
    /\ sess.ws = "closed"
    /\ ~sess.heartbeatInterval /\ ~sess.registrationInterval
    /\ ~sess.isConnected /\ ~sess.isRegistered
    /\ sess.scheduled = 1 /\ sess.reconnectTimeout = ReconnectDelay

C24_Witness ==
  /\ sess.act = "OnError" /\ ~sess.isAppClosing
  /\ sess.wasConnected /\ sess.wasRegistered /\ sess.scheduled = 1

\* C25: an open event with the shutdown flag clear leaves connected = true,
\* registered = false, the attempt counter 0, one registration frame sent,
\* both timers running, and one notification (true).
C25_OpenStartsSession ==
  (sess.act = "OnOpen" /\ ~sess.isAppClosing) =>
    /\ sess.isConnected /\ ~sess.isRegistered
    /\ sess.registrationAttempts = 0
    /\ sess.sent = <<"register">>
    /\ sess.heartbeatInterval /\ sess.registrationInterval
    /\ sess.notified = <<TRUE>>

C25_Witness ==
  /\ sess.act = "OnOpen" /\ ~sess.isAppClosing /\ sess.viaReconnect
  /\ sess.sent = <<"register">> /\ sess.registrationAttempts = 0

HasRegister(frames) == \E i \in 1..Len(frames) : frames[i] = "register"

\* C26: once "registered" was received on a socket its registration timer
\* is stopped and no registration frame is sent on it any more, and a
\* registration frame is written only to an open socket of an unregistered
\* session.
C26_RegistrationOnlyWhileUnregistered ==
  /\ sess.ackSeen => ~sess.registrationInterval
  /\ HasRegister(sess.sent) =>
       sess.ws = "open" /\ ~sess.ackSeen /\ ~sess.isRegistered

C26_Witness ==
  /\ sess.ackSeen /\ sess.ws = "open" /\ sess.isRegistered
  /\ sess.act = "HeartbeatTick" /\ sess.sent = <<"ping">>

\* C27: when the retries are exhausted the timer stops and nothing else
\* changes (socket open, heartbeat running, nothing scheduled, no
\* notification); no registration frame is sent while the counter is past
\* the maximum; the next open resets the counter and registers again.
C27_ExhaustionKeepsConnection ==
  [][/\ sess'.registrationAttempts > maxRegistrationAttempts
          => ~HasRegister(sess'.sent) /\ ~sess'.registrationInterval
     /\ (sess'.act = "RegistrationTick"
           /\ sess.registrationAttempts <= maxRegistrationAttempts
           /\ sess'.registrationAttempts > maxRegistrationAttempts)
          => /\ sess'.ws = "open" /\ sess'.isConnected
             /\ sess'.heartbeatInterval = sess.heartbeatInterval
             /\ sess'.scheduled = 0 /\ sess'.notified = <<>>
             /\ sess'.reconnectTimeout = sess.reconnectTimeout
     /\ (sess.registrationAttempts > maxRegistrationAttempts
           /\ sess'.act = "OnOpen" /\ ~sess'.isAppClosing)
          => /\ sess'.registrationAttempts = 0
             /\ sess'.sent = <<"register">>
             /\ sess'.registrationInterval]_vars

C27_Witness ==
  /\ sess.act = "RegistrationTick"
  /\ sess.registrationAttempts > maxRegistrationAttempts
  /\ sess.ws = "open" /\ sess.heartbeatInterval /\ sess.isConnected

\* C28: registered is never true while connected is false.
C28_RegisteredImpliesConnected ==
  sess.isRegistered => sess.isConnected

\* C33: at most one reconnect timer is pending and reconnectTimeout
\* designates it: no pending reconnect timer is out of reach of the
\* clearTimeout of connect() and disconnect().
C33_OneReconnectTimer ==
  sess.orphanTimers = 0

(***************************************************************************)
(* Claims about playback.                                                  *)
(***************************************************************************)
\* C6: at every instant at most one received clip is playing.
C6_AtMostOnePlaying ==
  Cardinality(PlayingClips(chat)) <= 1

C20_IsPlayingSignal ==
  chat.isPlaying <=> PlayingClips(chat) # {}

\* C31: when a clip ends or fails its object URL is revoked, and the end
\* or failure of a clip stops no clip that was received after it: the
\* render that follows the handler leaves every later playing clip playing.
C31_ErrorDoesNotStopLaterClips ==
  [][/\ chat'.act \in {"AudioEnded", "AudioError"}
          => chat'.cleared \notin chat'.urls
     /\ (chat'.act = "Render" /\ chat.currentAudio = 0 /\ chat.cleared # 0)
          => \A b \in PlayingClips(chat) :
               b > chat.cleared => chat'.clips[b] = "playing"]_vars

(***************************************************************************)
(* Claims about capture.                                                   *)
(***************************************************************************)
\* C3: whenever a chunk is handed to send_websocket_audio, the service's
\* registered flag is true at that moment.
C3_GatingInvariant ==
  chat.handed => getIsRegistered(svc)

C3_Witness ==
  chat.act = "ChunkSend" /\ chat.handed

\* C9: once a connectivity check has found the status not connected or not
\* registered, capture is stopped: capture mode is off and no recorder is
\* recording.
C9_CheckStopsCapture ==
  (chat.act = "ConnectionCheck" /\ chat.lostAtCheck) =>
    /\ ~chat.conversationMode
    /\ \A r \in 1..Len(chat.recorders) : chat.recorders[r].state # "recording"

\* what makes capture active in the component, and in the hook
ChatCapture(c) ==
  <<c.conversationMode, c.mediaRecorder, c.recorders, c.audioChunks,
    c.inBuffer, c.inDelay, c.audioContext, c.animationFrame,
    c.activityTimeout, c.isAudioActive>>

HookCapture(h) ==
  <<h.isRecording, h.mediaRecorderRef, h.streamRef, h.recorders>>

\* C17: when getUserMedia rejects, the start reports the failure (the
\* component alerts, the hook returns null) and nothing of capture changes:
\* no mode, recorder, chunk or timer.
C17_MicDeniedNoCapture ==
  [][/\ chat'.act = "MicDenied"
          => chat'.alerted /\ ChatCapture(chat') = ChatCapture(chat)
     /\ hook'.act = "HookDenied"
          => /\ hook'.returned = "null" /\ hook'.logged
             /\ ~hook'.chunkPassed
             /\ HookCapture(hook') = HookCapture(hook)]_vars

C17_Witness ==
  /\ chat.act = "MicDenied" /\ chat.alerted
  /\ ~chat.conversationMode /\ chat.recorders = <<>>
  /\ ~chat.animationFrame
  /\ hook.act = "HookDenied" /\ hook.returned = "null"
  /\ ~hook.isRecording /\ hook.recorders = <<>>

ChatStopped(c) ==
  /\ ~c.conversationMode /\ c.mediaRecorder = 0
  /\ \A r \in 1..Len(c.recorders) : c.recorders[r].state # "recording"
  /\ ~c.animationFrame /\ ~c.activityTimeout /\ ~c.isAudioActive
  /\ c.audioChunks = 0

HookIdle ==
  \/ hook.mediaRecorderRef = 0
  \/ hook.recorders[hook.mediaRecorderRef].state # "recording"

\* C18: a stop when capture is already stopped changes nothing and fails
\* with nothing: stopRecording() of the hook leaves every field, and the
\* stop branch of the component leaves capture stopped, stops no recorder
\* again, starts no request and shows no alert.
C18_StopIdempotent ==
  [][/\ (hook'.act = "HookStop" /\ HookIdle)
          => HookCapture(hook') = HookCapture(hook) /\ hook'.returned = ""
     /\ (chat'.act = "ClickToggle" /\ chat.conversationModeRef
           /\ ChatStopped(chat))
          => /\ ChatStopped(chat')
             /\ chat'.starting = chat.starting
             /\ ~chat'.alerted
             /\ Len(chat'.recorders) = Len(chat.recorders)
             /\ \A r \in 1..Len(chat.recorders) :
                  /\ chat'.recorders[r].state = chat.recorders[r].state
                  /\ chat'.recorders[r].stopPending
                       = chat.recorders[r].stopPending]_vars

C18_Witness ==
  /\ chat.act = "ClickToggle" /\ chat.conversationModeRef
  /\ ChatStopped(chat) /\ chat.audioContext = "null"
  /\ Len(chat.recorders) = 1
  /\ hook.act = "HookStop" /\ ~hook.isRecording
  /\ Len(hook.recorders) = 1 /\ hook.recorders[1].state = "inactive"

\* C19: a chunk is handed to send_websocket_audio only while capture is
\* active (conversation mode on, in the state or in the ref).
C19_SendOnlyWhileCapturing ==
  chat.handed => (chat.conversationMode \/ chat.conversationModeRef)

\* C29: once the activity signal has become true it stays true for at
\* least the hold time of 500 ms: while capture goes on, neither a frame of
\* the detection loop nor the activity timeout turns it false earlier.
C29_ActivityHeld ==
  [][(/\ chat.isAudioActive /\ ~chat'.isAudioActive
      /\ chat'.act \in {"DetectAudio", "ActivityTimeout"})
        => chat'.clock >= chat.activeSince + ActivityHold]_vars

\* every resource of capture is released
CaptureReleased(c) ==
  /\ \A r \in 1..Len(c.recorders) :
       /\ c.recorders[r].state # "recording"
       /\ ~c.recorders[r].tracks
       /\ ~c.recorders[r].interval
  /\ ~c.animationFrame /\ ~c.activityTimeout
  /\ c.audioContext \in {"null", "closed"}

\* C30: when the stop branch of toggleConversationMode has run, no
\* recorder is recording, every microphone track is stopped, every
\* connectivity-check interval is cleared, and the detection loop, the
\* activity timeout and the audio context are torn down, whatever the
\* state of the recorder was.
C30_StopReleasesAll ==
  [][(chat'.act = "ClickToggle" /\ chat.conversationModeRef)
        => CaptureReleased(chat')]_vars

\* C32: the component holds no chunk whose send-or-drop decision has been
\* taken: the chunks in audioChunks are at most those still on their way
\* through sendAudioChunk, however many chunks the recorder has produced.
C32_ChunksNotRetained ==
  chat.audioChunks <= chat.inBuffer + chat.inDelay

\* C38: every recorder that is recording is the one the component (the
\* hook) refers to, so at most one records at a time and a stop reaches
\* it; a second start never leaves a recorder recording that nothing
\* refers to.
C38_OneReferencedRecorder ==
  /\ \A r \in 1..Len(chat.recorders) :
       chat.recorders[r].state = "recording" => chat.mediaRecorder = r
  /\ \A r \in 1..Len(hook.recorders) :
       hook.recorders[r].state = "recording" => hook.mediaRecorderRef = r

\* C39: whenever capture mode is on, the recorder of the component is
\* recording and the voice-activity analysis is running: its audio context
\* is open and its detection loop has a frame requested.
C39_ModeOnMeansRecording ==
  (chat.conversationMode /\ chat.mediaRecorder # 0) =>
    /\ chat.recorders[chat.mediaRecorder].state = "recording"
    /\ chat.audioContext = "running"
    /\ chat.animationFrame

(***************************************************************************)
(* Claims about the backend-delegating service.                            *)
(***************************************************************************)
\* C10: when disconnect() has finished, whether the backend call succeeded
\* or failed, the status is connected = false and registered = false.
C10_DisconnectClearsStatus ==
  /\ (svc.act = "SvcDisconnectReturn"
        => ~getIsConnected(svc) /\ ~getIsRegistered(svc))
  /\ (sess.act = "Disconnect" => ~sess.isConnected /\ ~sess.isRegistered)

\* C34: after disconnect(), also one called while init() still awaits a
\* listen(), no handler of the service stays subscribed to a backend
\* event, and the getStatus(true) of init() does not call connect().
C34_DisconnectDuringInit ==
  [][/\ svc'.isAppClosing => svc'.subscribed = {}
     /\ (svc.isAppClosing /\ svc'.act = "SvcGetStatusReturn")
          => (svc'.isAppClosing /\ svc'.wanted = svc.wanted)]_vars

\* C37: the reply to get_websocket_status never replaces a newer status:
\* when every emitted 'websocket-status' event has been handled and the
\* cached status equals the backend's, it still does after getStatus()
\* has taken the reply (no disconnect() involved).
C37_ReplyNeverOverwritesNewer ==
  [][(/\ svc'.act = "SvcGetStatusReturn" /\ svc.statusQuery = "answered"
      /\ svc.disconnectPc = "idle" /\ svc.events = <<>>
      /\ <<getIsConnected(svc), getIsRegistered(svc)>> = svc.backend)
        => <<getIsConnected(svc'), getIsRegistered(svc')>> = svc'.backend]_vars

\* C36: with connect() installing the subscriptions, one backend event
\* reaches each registered listener exactly once, however many times
\* connect() was called, as long as disconnect() was never called
\* (registries without duplicate entries): status events go to the
\* connection listeners, message and binary events to the message
\* listeners.
C36_EventDeliveredOnce ==
  (/\ svc3.act = "Svc3BackendEvent" /\ svc3.disconnectPc = "idle"
   /\ \A l \in Listeners :
        Count(svc3.listeners, l) <= 1 /\ Count(svc3.connectionListeners, l) <= 1)
    => \A l \in Listeners :
         /\ (svc3.channel = "status" /\ InRegistry(svc3.connectionListeners, l))
              => Count(svc3.invokedConnection, l) = 1
         /\ (svc3.channel # "status" /\ InRegistry(svc3.listeners, l))
              => Count(svc3.invoked, l) = 1

=============================================================================
